---- MODULE Spec2Model ----
(***************************************************************************)
(* TinyBERTCLSDistillor (uf/modeling/tiny_bert.py): the constructor that   *)
(* assembles the TinyBERT distillation graph, and the four loss helpers.   *)
(*                                                                         *)
(* Tensors are symbolic terms (which network produced them, which layer,   *)
(* whether they passed stop_gradient); the prediction loss is also         *)
(* modelled numerically, with tensors of integers and numpy broadcasting,  *)
(* under the second specification SpecPred.                                *)
(***************************************************************************)
EXTENDS Integers, Sequences, FiniteSets, TLC

\* ------------------------------------------------------------------ bounds
\* Largest num_hidden_layers tried for the student and for the teacher.
MaxLayers == 3
\* Largest batch size tried in the numeric model of _get_pred_loss.
MaxBatch == 2
\* Largest per-sample weight tried in the numeric model of _get_pred_loss.
MaxWeight == 1

\* label_size, the constructor's default number of classes.
label_size == 2

\* ------------------------------------------------------- constructor state
VARIABLES
    is_training,        \* argument
    kwargs,             \* **kwargs: a set of <<keyword, value>> pairs
    trainable,          \* argument (never read by the constructor)
    sample_weight,      \* argument: "None" or "given"
    student_layers,     \* student_config.num_hidden_layers
    teacher_layers,     \* bert_config.num_hidden_layers
    pc,                 \* position in __init__
    encoder_calls,      \* the BERTEncoder calls made so far, in order
    variables,          \* the tf.get_variable calls of _get_logits
    student,            \* the student encoder object
    teacher,            \* the teacher encoder object
    student_logits,
    teacher_logits,
    weights,            \* "unset", "1.0" or "sample_weight"
    embedding_loss,
    i,                  \* loop variable of the two per-layer loops
    attention_losses,   \* the list built by _get_attention_loss
    attention_subscripts, \* the subscripts evaluated on teacher_attention_scores
    attention_loss,
    hidden_losses,      \* the list built by _get_hidden_loss
    hidden_subscripts,  \* the subscripts evaluated on teacher_hidden_layers
    hidden_loss,
    pred_loss,
    total_loss,         \* self.total_loss
    losses,             \* self.losses: a set of <<key, value>> pairs
    probs,              \* self.probs
    preds,              \* self.preds
    \* ---------------------------------- numeric _get_pred_loss (SpecPred)
    p_pc,               \* position in _get_pred_loss
    p_teacher_probs,    \* softmax(teacher_logits), shape [B, label_size]
    p_student_log_probs,\* log_softmax(student_logits), shape [B, label_size]
    p_weights,          \* the weights argument: a scalar or a vector [B]
    p_pred_loss         \* the local pred_loss

ctor_vars == <<is_training, kwargs, trainable, sample_weight, student_layers,
               teacher_layers, pc, encoder_calls, variables, student, teacher,
               student_logits, teacher_logits, weights, embedding_loss, i,
               attention_losses, attention_subscripts, attention_loss,
               hidden_losses, hidden_subscripts, hidden_loss, pred_loss,
               total_loss, losses, probs, preds>>

pred_vars == <<p_pc, p_teacher_probs, p_student_log_probs, p_weights,
               p_pred_loss>>

vars == <<ctor_vars, pred_vars>>

\* ---------------------------------------------------------------- tensors
NoTensor == [scope |-> "none", kind |-> "none", layer |-> -1,
             sg |-> FALSE, dense |-> FALSE]

Tensor(scope, kind, layer) ==
    [scope |-> scope, kind |-> kind, layer |-> layer,
     sg |-> FALSE, dense |-> FALSE]

StopGradient_Omitted(t) == t

\* tf.stop_gradient
StopGradient(t) == [t EXCEPT !.sg = TRUE]

\* tf.layers.dense: a trainable projection of the student tensor
Dense(t) == [t EXCEPT !.dense = TRUE]

\* tf.nn.softmax, tf.nn.log_softmax and tf.argmax on a symbolic tensor
Softmax(t) == [t EXCEPT !.kind = "probs"]
LogSoftmax(t) == [t EXCEPT !.kind = "log_probs"]
Argmax(t) == [t EXCEPT !.kind = "argmax"]

NoLoss == [op |-> "none", labels |-> NoTensor, predictions |-> NoTensor,
           weights |-> "unset"]

\* tf.losses.mean_squared_error(labels, predictions, weights)
MeanSquaredError(labels, predictions, w) ==
    [op |-> "mse", labels |-> labels, predictions |-> predictions,
     weights |-> w]

NoSum == [op |-> "none", terms |-> <<>>]

\* tf.add_n
AddN(list) == [op |-> "add_n", terms |-> list]

\* ---------------------------------------------------------------- encoder
NoEncoder == [bert_config |-> "none", is_training |-> FALSE, scope |-> "none",
              use_tilda_embedding |-> "None", trainable |-> FALSE,
              num_hidden_layers |-> 0]

StudentScope == "tiny/bert"
TeacherScope == "bert"

\* config.num_hidden_layers
NumHiddenLayers(config) ==
    IF config = "student_config" THEN student_layers ELSE teacher_layers

\* The encoder object a BERTEncoder call returns: one attention-score tensor
\* and one hidden-layer tensor per layer of its config.
BERTEncoder(args) ==
    [bert_config |-> args.bert_config, is_training |-> args.is_training,
     scope |-> args.scope, use_tilda_embedding |-> args.use_tilda_embedding,
     trainable |-> args.trainable,
     num_hidden_layers |-> NumHiddenLayers(args.bert_config)]

get_embedding_output(enc) == Tensor(enc.scope, "embedding", -1)
get_pooled_output(enc) == Tensor(enc.scope, "pooled", -1)
get_attention_scores(enc) ==
    [l \in 1..enc.num_hidden_layers |-> Tensor(enc.scope, "attention", l - 1)]
all_encoder_layers(enc) ==
    [l \in 1..enc.num_hidden_layers |-> Tensor(enc.scope, "hidden", l - 1)]

\* --------------------------------------------------------- Python semantics
\* kwargs.get(key): the value, or None
KwargsGet(kw, key) ==
    IF \E p \in kw : p[1] = key
    THEN (CHOOSE p \in kw : p[1] = key)[2]
    ELSE "None"

KwargsKeys(kw) == {p[1] : p \in kw}

\* f(a=.., b=.., **kw) raises TypeError (multiple values for a keyword
\* argument) when a key of kw is also given explicitly.
DuplicateKeyword(explicit, kw) == explicit \cap KwargsKeys(kw) # {}

\* list[idx]: whether idx is inside the list, and the 0-based position read
\* (a negative idx counts from the end).
PyIndexInRange(len, idx) == idx >= -len /\ idx < len
PyIndexPosition(len, idx) == IF idx < 0 THEN len + idx ELSE idx
PyGetItem(list, idx) == list[PyIndexPosition(Len(list), idx) + 1]

\* --------------------------------------------------------------- __init__
EncoderKeywords ==
    {"bert_config", "is_training", "input_ids", "input_mask", "segment_ids",
     "scope", "use_tilda_embedding", "drop_pooler", "trainable"}

\* the keywords the student call spells out (lines 63-71)
StudentEncoderArgs ==
    [bert_config |-> "student_config", is_training |-> is_training,
     scope |-> StudentScope,
     use_tilda_embedding |-> KwargsGet(kwargs, "use_tilda_embedding"),
     trainable |-> TRUE]

TeacherEncoderArgs_StudentConfig ==
    [bert_config |-> "student_config", is_training |-> FALSE,
     scope |-> TeacherScope, use_tilda_embedding |-> "False",
     trainable |-> FALSE]

\* the keywords the teacher call spells out (lines 79-87)
TeacherEncoderArgs ==
    [bert_config |-> "bert_config", is_training |-> FALSE,
     scope |-> TeacherScope, use_tilda_embedding |-> "False",
     trainable |-> FALSE]

\* _get_logits: the two variables it creates, and the logits tensor
GetLogitsVariables(scope, tr) ==
    <<[scope |-> scope, name |-> "output_weights", trainable |-> tr],
      [scope |-> scope, name |-> "output_bias", trainable |-> tr]>>

GetLogits(pooled_output) == [pooled_output EXCEPT !.kind = "logits"]

ctor_outputs == <<total_loss, losses, probs, preds>>
loss_locals == <<embedding_loss, i, attention_losses, attention_subscripts,
                 attention_loss, hidden_losses, hidden_subscripts,
                 hidden_loss, pred_loss>>
ctor_args == <<is_training, kwargs, trainable, sample_weight, student_layers,
               teacher_layers>>

\* lines 61-72: student = BERTEncoder(..., **kwargs)
BuildStudent ==
    /\ pc = "student_encoder"
    /\ IF DuplicateKeyword(EncoderKeywords, kwargs)
       THEN /\ pc' = "TypeError"
            /\ UNCHANGED <<encoder_calls, student>>
       ELSE /\ encoder_calls' = Append(encoder_calls, StudentEncoderArgs)
            /\ student' = BERTEncoder(StudentEncoderArgs)
            /\ pc' = "student_logits"
    /\ UNCHANGED <<ctor_args, variables, teacher, student_logits,
                   teacher_logits, weights, loss_locals, ctor_outputs,
                   pred_vars>>

\* lines 73-77: student_logits = _get_logits(...); if is_training
BuildStudentLogits ==
    /\ pc = "student_logits"
    /\ variables' = variables \o GetLogitsVariables("tiny/cls/seq_relationship", TRUE)
    /\ student_logits' = GetLogits(get_pooled_output(student))
    /\ pc' = IF is_training THEN "teacher_encoder" ELSE "inference"
    /\ UNCHANGED <<ctor_args, encoder_calls, student, teacher, teacher_logits,
                   weights, loss_locals, ctor_outputs, pred_vars>>

\* lines 78-88: teacher = BERTEncoder(..., **kwargs)
BuildTeacher ==
    /\ pc = "teacher_encoder"
    /\ IF DuplicateKeyword(EncoderKeywords, kwargs)
       THEN /\ pc' = "TypeError"
            /\ UNCHANGED <<encoder_calls, teacher>>
       ELSE /\ encoder_calls' = Append(encoder_calls, TeacherEncoderArgs)
            /\ teacher' = BERTEncoder(TeacherEncoderArgs)
            /\ pc' = "teacher_logits"
    /\ UNCHANGED <<ctor_args, variables, student, student_logits,
                   teacher_logits, weights, loss_locals, ctor_outputs,
                   pred_vars>>

\* lines 89-91
BuildTeacherLogits ==
    /\ pc = "teacher_logits"
    /\ variables' = variables \o GetLogitsVariables("cls/seq_relationship", FALSE)
    /\ teacher_logits' = GetLogits(get_pooled_output(teacher))
    /\ pc' = "weights"
    /\ UNCHANGED <<ctor_args, encoder_calls, student, teacher, student_logits,
                   weights, loss_locals, ctor_outputs, pred_vars>>

\* lines 93-95
SetWeights ==
    /\ pc = "weights"
    /\ weights' = IF sample_weight # "None" THEN "sample_weight" ELSE "1.0"
    /\ pc' = "embedding_loss"
    /\ UNCHANGED <<ctor_args, encoder_calls, variables, student, teacher,
                   student_logits, teacher_logits, loss_locals, ctor_outputs,
                   pred_vars>>

\* ---------------------------------------------------------- loss helpers
\* _get_embedding_loss (lines 125-138)
GetEmbeddingLoss(tch, std, w) ==
    LET teacher_embedding == StopGradient(get_embedding_output(tch))
        student_embedding == get_embedding_output(std)
        linear_trans == Dense(student_embedding)
    IN  MeanSquaredError(linear_trans, teacher_embedding, w)

\* lines 97-99
EmbeddingLoss ==
    /\ pc = "embedding_loss"
    /\ embedding_loss' = GetEmbeddingLoss(teacher, student, weights)
    /\ pc' = "attention_loss"
    /\ UNCHANGED <<ctor_args, encoder_calls, variables, student, teacher,
                   student_logits, teacher_logits, weights, i,
                   attention_losses, attention_subscripts, attention_loss,
                   hidden_losses, hidden_subscripts, hidden_loss, pred_loss,
                   ctor_outputs, pred_vars>>

num_projections_RoundUp(num_teacher_hidden_layers, num_student_hidden_layers) ==
    (num_teacher_hidden_layers + num_student_hidden_layers - 1)
        \div num_student_hidden_layers

\* int(num_teacher_hidden_layers / num_student_hidden_layers), lines 148-149
\* and 168-169: a float division truncated towards zero; both operands are
\* positive layer counts, far below 2^53, so this is the integer quotient.
num_projections(num_teacher_hidden_layers, num_student_hidden_layers) ==
    num_teacher_hidden_layers \div num_student_hidden_layers

AttentionSubscript_OffByOne(np, idx) == np * idx + np

\* the subscript of teacher_attention_scores, lines 153-154
AttentionSubscript(np, idx) == np * idx + np - 1

HiddenSubscript_GroupStart(np, idx) == np * idx

\* the subscript of teacher_hidden_layers, lines 174-175
HiddenSubscript(np, idx) == np * idx + np - 1

\* lines 142-145: the teacher list, each value through stop_gradient
teacher_attention_scores ==
    [l \in 1..teacher.num_hidden_layers |->
        StopGradient(get_attention_scores(teacher)[l])]
student_attention_scores == get_attention_scores(student)

\* lines 162-165
teacher_hidden_layers ==
    [l \in 1..teacher.num_hidden_layers |->
        StopGradient(all_encoder_layers(teacher)[l])]
student_hidden_layers == all_encoder_layers(student)

\* lines 101-103, 142-150: enter _get_attention_loss
AttentionLossEnter ==
    /\ pc = "attention_loss"
    /\ attention_losses' = <<>>
    /\ attention_subscripts' = <<>>
    /\ i' = 0
    /\ pc' = "attention_loop"
    /\ UNCHANGED <<ctor_args, encoder_calls, variables, student, teacher,
                   student_logits, teacher_logits, weights, embedding_loss,
                   attention_loss, hidden_losses, hidden_subscripts,
                   hidden_loss, pred_loss, ctor_outputs, pred_vars>>

\* lines 151-156: one round of for i in range(num_student_hidden_layers)
AttentionLossStep ==
    /\ pc = "attention_loop"
    /\ i < student_layers
    /\ LET np == num_projections(teacher_layers, student_layers)
           sub == AttentionSubscript(np, i)
       IN  /\ attention_subscripts' = Append(attention_subscripts, sub)
           /\ IF PyIndexInRange(Len(teacher_attention_scores), sub)
                 /\ PyIndexInRange(Len(student_attention_scores), i)
              THEN /\ attention_losses' = Append(attention_losses,
                        MeanSquaredError(
                            PyGetItem(teacher_attention_scores, sub),
                            PyGetItem(student_attention_scores, i),
                            weights))
                   /\ i' = i + 1
                   /\ pc' = "attention_loop"
              ELSE /\ pc' = "IndexError"
                   /\ UNCHANGED <<attention_losses, i>>
    /\ UNCHANGED <<ctor_args, encoder_calls, variables, student, teacher,
                   student_logits, teacher_logits, weights, embedding_loss,
                   attention_loss, hidden_losses, hidden_subscripts,
                   hidden_loss, pred_loss, ctor_outputs, pred_vars>>

\* lines 157-158: attention_loss = tf.add_n(attention_losses)
AttentionLossExit ==
    /\ pc = "attention_loop"
    /\ i >= student_layers
    /\ attention_loss' = AddN(attention_losses)
    /\ pc' = "hidden_loss"
    /\ UNCHANGED <<ctor_args, encoder_calls, variables, student, teacher,
                   student_logits, teacher_logits, weights, embedding_loss, i,
                   attention_losses, attention_subscripts, hidden_losses,
                   hidden_subscripts, hidden_loss, pred_loss, ctor_outputs,
                   pred_vars>>

\* lines 105-107, 162-171: enter _get_hidden_loss
HiddenLossEnter ==
    /\ pc = "hidden_loss"
    /\ hidden_losses' = <<>>
    /\ hidden_subscripts' = <<>>
    /\ i' = 0
    /\ pc' = "hidden_loop"
    /\ UNCHANGED <<ctor_args, encoder_calls, variables, student, teacher,
                   student_logits, teacher_logits, weights, embedding_loss,
                   attention_losses, attention_subscripts, attention_loss,
                   hidden_loss, pred_loss, ctor_outputs, pred_vars>>

\* lines 172-180: one round of for i in range(num_student_hidden_layers)
HiddenLossStep ==
    /\ pc = "hidden_loop"
    /\ i < student_layers
    /\ LET np == num_projections(teacher_layers, student_layers)
           sub == HiddenSubscript(np, i)
       IN  /\ hidden_subscripts' = Append(hidden_subscripts, sub)
           /\ IF PyIndexInRange(Len(teacher_hidden_layers), sub)
                 /\ PyIndexInRange(Len(student_hidden_layers), i)
              THEN /\ hidden_losses' = Append(hidden_losses,
                        MeanSquaredError(
                            PyGetItem(teacher_hidden_layers, sub),
                            Dense(PyGetItem(student_hidden_layers, i)),
                            weights))
                   /\ i' = i + 1
                   /\ pc' = "hidden_loop"
              ELSE /\ pc' = "IndexError"
                   /\ UNCHANGED <<hidden_losses, i>>
    /\ UNCHANGED <<ctor_args, encoder_calls, variables, student, teacher,
                   student_logits, teacher_logits, weights, embedding_loss,
                   attention_losses, attention_subscripts, attention_loss,
                   hidden_loss, pred_loss, ctor_outputs, pred_vars>>

\* lines 181-182: hidden_loss = tf.add_n(hidden_losses)
HiddenLossExit ==
    /\ pc = "hidden_loop"
    /\ i >= student_layers
    /\ hidden_loss' = AddN(hidden_losses)
    /\ pc' = "pred_loss"
    /\ UNCHANGED <<ctor_args, encoder_calls, variables, student, teacher,
                   student_logits, teacher_logits, weights, embedding_loss, i,
                   attention_losses, attention_subscripts, attention_loss,
                   hidden_losses, hidden_subscripts, pred_loss, ctor_outputs,
                   pred_vars>>

\* _get_pred_loss (lines 184-192), as a symbolic term
GetPredLoss(t_logits, s_logits, w) ==
    LET teacher_probs == StopGradient(Softmax(t_logits))
        student_log_probs == LogSoftmax(s_logits)
    IN  [op |-> "soft_cross_entropy", labels |-> teacher_probs,
         predictions |-> student_log_probs, weights |-> w]

\* lines 109-111
PredLoss ==
    /\ pc = "pred_loss"
    /\ pred_loss' = GetPredLoss(teacher_logits, student_logits, weights)
    /\ pc' = "sum_up"
    /\ UNCHANGED <<ctor_args, encoder_calls, variables, student, teacher,
                   student_logits, teacher_logits, weights, embedding_loss, i,
                   attention_losses, attention_subscripts, attention_loss,
                   hidden_losses, hidden_subscripts, hidden_loss,
                   ctor_outputs, pred_vars>>

DistillLoss_HiddenTwice(e, a, h, p) ==
    [op |-> "add", terms |-> <<e, a, h, h>>]

\* lines 114-115: embedding_loss + attention_loss + hidden_loss + pred_loss
DistillLoss(e, a, h, p) ==
    [op |-> "add", terms |-> <<e, a, h, p>>]

NoTotal == [op |-> "none", terms |-> <<>>]

SumUp_LossesForgotten ==
    /\ pc = "sum_up"
    /\ total_loss' = DistillLoss(embedding_loss, attention_loss, hidden_loss, pred_loss)
    /\ pc' = "done"
    /\ UNCHANGED <<ctor_args, encoder_calls, variables, student, teacher,
                   student_logits, teacher_logits, weights, loss_locals,
                   losses, probs, preds, pred_vars>>

\* lines 113-117
SumUp ==
    /\ pc = "sum_up"
    /\ LET distill_loss == DistillLoss(embedding_loss, attention_loss,
                                       hidden_loss, pred_loss)
       IN  /\ total_loss' = distill_loss
           /\ losses' = {p \in losses : p[1] # "losses"}
                            \cup {<<"losses", distill_loss>>}
    /\ pc' = "done"
    /\ UNCHANGED <<ctor_args, encoder_calls, variables, student, teacher,
                   student_logits, teacher_logits, weights, loss_locals,
                   probs, preds, pred_vars>>

\* lines 119-123
Inference ==
    /\ pc = "inference"
    /\ LET student_probs == Softmax(student_logits)
       IN  /\ probs' = {p \in probs : p[1] # "probs"}
                            \cup {<<"probs", student_probs>>}
           /\ preds' = {p \in preds : p[1] # "preds"}
                            \cup {<<"preds", Argmax(student_probs)>>}
    /\ pc' = "done"
    /\ UNCHANGED <<ctor_args, encoder_calls, variables, student, teacher,
                   student_logits, teacher_logits, weights, loss_locals,
                   total_loss, losses, pred_vars>>

\* ------------------------------------------- _get_pred_loss, numerically
\* A tensor of numbers: its shape, its entries by index tuple, and a common
\* denominator (the entry at ix stands for data[ix] / den).
RECURSIVE Product(_)
Product(shape) ==
    IF Len(shape) = 0 THEN 1
    ELSE shape[1] * Product(SubSeq(shape, 2, Len(shape)))

RECURSIVE MaxOf(_)
MaxOf(shape) ==
    IF Len(shape) = 0 THEN 0
    ELSE LET m == MaxOf(SubSeq(shape, 2, Len(shape)))
         IN  IF shape[1] > m THEN shape[1] ELSE m

Indices(shape) ==
    {ix \in [1..Len(shape) -> 1..MaxOf(shape)] :
        \A k \in 1..Len(shape) : ix[k] <= shape[k]}

\* the row-major position (from 1) of index tuple ix
RECURSIVE RowMajor(_, _, _)
RowMajor(shape, ix, k) ==
    IF k = 0 THEN 0
    ELSE RowMajor(shape, ix, k - 1) * shape[k] + (ix[k] - 1)

Elements(t) ==
    [n \in 1..Product(t.shape) |->
        t.data[CHOOSE ix \in Indices(t.shape) :
                    RowMajor(t.shape, ix, Len(t.shape)) + 1 = n]]

RECURSIVE SumSeq(_)
SumSeq(q) == IF Len(q) = 0 THEN 0 ELSE q[1] + SumSeq(SubSeq(q, 2, Len(q)))

Scalar(x) == [shape |-> <<>>, data |-> [ix \in Indices(<<>>) |-> x], den |-> 1]

\* a [rows, cols] tensor from a sequence of rows
Matrix(rows, cols) ==
    [shape |-> <<Len(rows), cols>>,
     data |-> [ix \in Indices(<<Len(rows), cols>>) |-> rows[ix[1]][ix[2]]],
     den |-> 1]

Vector(q) ==
    [shape |-> <<Len(q)>>,
     data |-> [ix \in Indices(<<Len(q)>>) |-> q[ix[1]]],
     den |-> 1]

\* tf.reshape(t, [-1, 1])
ReshapeColumn(t) ==
    LET n == Product(t.shape)
    IN  [shape |-> <<n, 1>>,
         data |-> [ix \in Indices(<<n, 1>>) |-> Elements(t)[ix[1]]],
         den |-> t.den]

\* broadcasting: shapes are aligned at their last dimension, a missing or
\* 1-sized dimension is stretched.
PadShape(shape, r) ==
    [k \in 1..r |-> IF k <= r - Len(shape) THEN 1
                    ELSE shape[k - (r - Len(shape))]]

BroadcastShape(s1, s2) ==
    LET r == IF Len(s1) > Len(s2) THEN Len(s1) ELSE Len(s2)
        a == PadShape(s1, r)
        b == PadShape(s2, r)
    IN  [k \in 1..r |-> IF a[k] = 1 THEN b[k] ELSE a[k]]

Broadcastable(s1, s2) ==
    LET r == IF Len(s1) > Len(s2) THEN Len(s1) ELSE Len(s2)
        a == PadShape(s1, r)
        b == PadShape(s2, r)
    IN  \A k \in 1..r : a[k] = b[k] \/ a[k] = 1 \/ b[k] = 1

\* the entry of t that broadcasting puts at index ix of the result
BroadcastAt(t, ix) ==
    LET off == Len(ix) - Len(t.shape)
    IN  t.data[[k \in 1..Len(t.shape) |->
                    IF t.shape[k] = 1 THEN 1 ELSE ix[k + off]]]

Multiply_RowWise(a, b) ==
    [shape |-> a.shape,
     data |-> [ix \in Indices(a.shape) |-> a.data[ix] * Elements(b)[ix[1]]],
     den |-> a.den * b.den]

\* a * b, with broadcasting
Multiply(a, b) ==
    LET shape == BroadcastShape(a.shape, b.shape)
    IN  [shape |-> shape,
         data |-> [ix \in Indices(shape) |->
                        BroadcastAt(a, ix) * BroadcastAt(b, ix)],
         den |-> a.den * b.den]

Negative(t) == [t EXCEPT !.data = [ix \in DOMAIN t.data |-> 0 - t.data[ix]]]

\* tf.reduce_sum(t, axis=-1)
ReduceSumLast(t) ==
    LET r == Len(t.shape)
        shape == SubSeq(t.shape, 1, r - 1)
    IN  [shape |-> shape,
         data |-> [ix \in Indices(shape) |->
                    SumSeq([c \in 1..t.shape[r] |->
                        t.data[[k \in 1..r |-> IF k < r THEN ix[k] ELSE c]]])],
         den |-> t.den]

\* tf.reduce_mean(t): the sum of all entries over their number
ReduceMean(t) ==
    [shape |-> <<>>,
     data |-> [ix \in Indices(<<>>) |-> SumSeq(Elements(t))],
     den |-> t.den * Product(t.shape)]

\* lines 188-190
WeightedCrossEntropy(teacher_probs, student_log_probs, w) ==
    Multiply(Negative(ReduceSumLast(Multiply(teacher_probs, student_log_probs))),
             ReshapeColumn(w))

ProbRows == {r \in [1..label_size -> 1..3] : SumSeq(r) = 4}
\* log-probabilities in units of u = ln((1 + sqrt 5) / 2), for which
\* exp(-u) + exp(-2u) = 1: the rows (-1, -2) and (-2, -1) are log_softmax
\* outputs.
LogProbRows == {r \in [1..label_size -> {-2, -1}] : SumSeq(r) = -3}

PredIdle ==
    /\ p_pc = "idle"
    /\ p_teacher_probs = Scalar(0)
    /\ p_student_log_probs = Scalar(0)
    /\ p_weights = Scalar(0)
    /\ p_pred_loss = Scalar(0)

\* the state at line 188: teacher_probs and student_log_probs are the
\* softmax outputs (in quarters, and in units of u),
\* weights is the scalar 1.0 or the cast sample_weight vector.
InitPredArgs ==
    \E B \in 1..MaxBatch :
        /\ p_teacher_probs \in {Matrix(rows, label_size) : rows \in [1..B -> ProbRows]}
        /\ p_student_log_probs \in
                {Matrix(rows, label_size) : rows \in [1..B -> LogProbRows]}
        /\ p_weights \in {Scalar(1)} \cup {Vector(q) : q \in [1..B -> 0..MaxWeight]}
        /\ p_pred_loss = Scalar(0)
        /\ p_pc = "weighted"

\* lines 188-190
PredWeighted ==
    /\ p_pc = "weighted"
    /\ p_pred_loss' = WeightedCrossEntropy(p_teacher_probs,
                                           p_student_log_probs, p_weights)
    /\ p_pc' = "reduce_mean"
    /\ UNCHANGED <<ctor_vars, p_teacher_probs, p_student_log_probs, p_weights>>

\* lines 191-192
PredReduceMean ==
    /\ p_pc = "reduce_mean"
    /\ p_pred_loss' = ReduceMean(p_pred_loss)
    /\ p_pc' = "return"
    /\ UNCHANGED <<ctor_vars, p_teacher_probs, p_student_log_probs, p_weights>>

\* ------------------------------------------------------- specifications
CtorLocalsInit ==
    /\ encoder_calls = <<>>
    /\ variables = <<>>
    /\ student = NoEncoder
    /\ teacher = NoEncoder
    /\ student_logits = NoTensor
    /\ teacher_logits = NoTensor
    /\ weights = "unset"
    /\ embedding_loss = NoLoss
    /\ i = 0
    /\ attention_losses = <<>>
    /\ attention_subscripts = <<>>
    /\ attention_loss = NoSum
    /\ hidden_losses = <<>>
    /\ hidden_subscripts = <<>>
    /\ hidden_loss = NoSum
    /\ pred_loss = NoLoss
    /\ total_loss = NoTotal
    /\ losses = {}
    /\ probs = {}
    /\ preds = {}

KwargsChoices ==
    {{}, {<<"use_tilda_embedding", "True">>}, {<<"use_tilda_embedding", "False">>}}

\* the state on entry to __init__, after super().__init__() (lines 24-39)
Init ==
    /\ is_training \in BOOLEAN
    /\ kwargs \in KwargsChoices
    /\ trainable \in BOOLEAN
    /\ sample_weight \in {"None", "given"}
    /\ student_layers \in 1..MaxLayers
    /\ teacher_layers \in 1..MaxLayers
    /\ pc = "student_encoder"
    /\ CtorLocalsInit
    /\ PredIdle

Next ==
    \/ BuildStudent
    \/ BuildStudentLogits
    \/ BuildTeacher
    \/ BuildTeacherLogits
    \/ SetWeights
    \/ EmbeddingLoss
    \/ AttentionLossEnter
    \/ AttentionLossStep
    \/ AttentionLossExit
    \/ HiddenLossEnter
    \/ HiddenLossStep
    \/ HiddenLossExit
    \/ PredLoss
    \/ SumUp
    \/ Inference

Spec == Init /\ [][Next]_vars

\* _get_pred_loss applied on its own to numeric tensors
InitPred ==
    /\ is_training = TRUE
    /\ kwargs = {}
    /\ trainable = TRUE
    /\ sample_weight = "None"
    /\ student_layers = 1
    /\ teacher_layers = 1
    /\ pc = "idle"
    /\ CtorLocalsInit
    /\ InitPredArgs

NextPred ==
    \/ PredWeighted
    \/ PredReduceMean

SpecPred == InitPred /\ [][NextPred]_vars

\* ------------------------------------------------------------- the claims
Training == is_training
Returned == pc = "done"
EncoderConfigs == [k \in 1..Len(encoder_calls) |-> encoder_calls[k].bert_config]
HasTilda == \E p \in kwargs : p[1] = "use_tilda_embedding"

\* the k with k * ns <= nt < (k + 1) * ns: floor(nt / ns), stated without
\* the division the code performs
IsFloorRatio(k, nt, ns) == k * ns <= nt /\ nt < (k + 1) * ns
FloorRatio(nt, ns) == CHOOSE k \in 0..nt : IsFloorRatio(k, nt, ns)

\* the teacher layers (0-based positions) read by the terms of a list
TeacherLayersUsed(list) == {list[j].labels.layer : j \in DOMAIN list}

TeacherOperands(term) ==
    {t \in {term.labels, term.predictions} : t.scope = TeacherScope}
StudentOperands(term) ==
    {t \in {term.labels, term.predictions} : t.scope = StudentScope}

\* C1 as stated: a construction that returns has called the encoder twice,
\* with student_config and with bert_config, whatever is_training is.
C1_TwoEncoderCallsInEveryMode ==
    Returned => EncoderConfigs = <<"student_config", "bert_config">>

\* C1 as amended: the encoder calls made are always a prefix of
\* <<student_config, bert_config>> in training mode and of <<student_config>>
\* in inference mode, and a construction that returns has made all of them:
\* two calls when is_training, one call (the student only) otherwise.
C1_EncoderCallsByMode ==
    LET expected == IF is_training
                    THEN <<"student_config", "bert_config">>
                    ELSE <<"student_config">>
    IN  /\ Len(encoder_calls) <= Len(expected)
        /\ \A k \in 1..Len(encoder_calls) : EncoderConfigs[k] = expected[k]
        /\ Returned => Len(encoder_calls) = Len(expected)

C1_Witness ==
    /\ Returned
    /\ ~is_training
    /\ Len(encoder_calls) = 1
    /\ encoder_calls[1].bert_config = "student_config"
    /\ teacher = NoEncoder

\* C2: the outputs are mode-exclusive. In training mode probs and preds never
\* get an entry, and on return total_loss and losses['losses'] hold the same
\* distillation loss; in inference mode total_loss and losses are never set,
\* and on return probs['probs'] and preds['preds'] are the softmax and the
\* argmax of the student logits.
C2_ModeExclusiveOutputs ==
    /\ is_training => probs = {} /\ preds = {}
    /\ ~is_training => total_loss = NoTotal /\ losses = {}
    /\ (Returned /\ is_training) =>
            /\ total_loss.op = "add"
            /\ losses = {<<"losses", total_loss>>}
    /\ (Returned /\ ~is_training) =>
            /\ Cardinality(probs) = 1
            /\ Cardinality(preds) = 1
            /\ \A p \in probs :
                    /\ p[1] = "probs"
                    /\ p[2].kind = "probs"
                    /\ p[2].scope = StudentScope
            /\ \A p \in preds :
                    /\ p[1] = "preds"
                    /\ p[2].kind = "argmax"
                    /\ p[2].scope = StudentScope

C2_Witness ==
    /\ Returned
    /\ is_training
    /\ losses = {<<"losses", total_loss>>}
    /\ total_loss.op = "add"
    /\ probs = {}

\* C3: on return in training mode the distillation loss is the sum of the
\* embedding, attention, hidden and prediction losses, each once and nothing
\* else, and the attention and hidden losses are each the sum of
\* num_student_hidden_layers terms, the j-th for student layer j - 1.
LossKind(term) ==
    IF term.op = "mse" THEN "embedding"
    ELSE IF term.op = "soft_cross_entropy" THEN "pred"
    ELSE IF term.op = "add_n" /\ Len(term.terms) > 0
         THEN term.terms[1].predictions.kind
    ELSE "none"

C3_FourTermsOncePerLayerSums ==
    (Returned /\ is_training) =>
        /\ Len(total_loss.terms) = 4
        /\ [k \in 1..4 |-> LossKind(total_loss.terms[k])]
                = <<"embedding", "attention", "hidden", "pred">>
        /\ \A k \in {2, 3} :
            LET per_layer == total_loss.terms[k].terms
            IN  /\ Len(per_layer) = student_layers
                /\ \A j \in 1..Len(per_layer) :
                        /\ per_layer[j].predictions.scope = StudentScope
                        /\ per_layer[j].predictions.layer = j - 1
                        /\ per_layer[j].predictions.kind
                                = per_layer[1].predictions.kind

C3_Witness ==
    /\ Returned
    /\ is_training
    /\ student_layers = 3
    /\ Len(total_loss.terms) = 4
    /\ Len(total_loss.terms[2].terms) = 3
    /\ Len(total_loss.terms[3].terms) = 3

\* C4: when 1 <= Ns <= Nt, with k = floor(Nt / Ns), the j-th per-layer term
\* (student layer i = j - 1) reads teacher subscript k * i + k - 1, which lies
\* in 0..Nt-1 and is the teacher layer actually read; subscripts increase
\* strictly with i; the attention loss and the hidden loss use the same
\* subscripts; no IndexError is raised.
AlignedList(subscripts, list) ==
    LET k == FloorRatio(teacher_layers, student_layers)
    IN  /\ \A j \in 1..Len(subscripts) :
                /\ subscripts[j] = k * (j - 1) + k - 1
                /\ subscripts[j] \in 0..(teacher_layers - 1)
        /\ \A j \in 1..Len(list) :
                /\ list[j].labels.scope = TeacherScope
                /\ list[j].labels.layer = subscripts[j]
                /\ list[j].predictions.layer = j - 1
        /\ \A j1, j2 \in 1..Len(subscripts) :
                j1 < j2 => subscripts[j1] < subscripts[j2]

C4_FixedRatioAlignment ==
    (1 <= student_layers /\ student_layers <= teacher_layers) =>
        /\ pc # "IndexError"
        /\ AlignedList(attention_subscripts, attention_losses)
        /\ AlignedList(hidden_subscripts, hidden_losses)
        /\ \A j \in 1..Len(hidden_subscripts) :
                hidden_subscripts[j] = attention_subscripts[j]
        /\ Returned /\ is_training =>
                /\ Len(attention_losses) = student_layers
                /\ Len(hidden_losses) = student_layers

C4_Witness ==
    /\ Returned
    /\ is_training
    /\ student_layers = 2
    /\ teacher_layers = 3
    /\ attention_subscripts = <<0, 1>>
    /\ hidden_subscripts = <<0, 1>>
    /\ Len(hidden_losses) = 2

\* C5: when 1 <= Ns <= Nt, on return the last student layer is compared with
\* the last teacher layer (in both losses) exactly when Ns divides Nt, and the
\* teacher layers floor(Nt/Ns)*Ns .. Nt-1 (the top Nt - floor(Nt/Ns)*Ns ones)
\* are read by no per-layer term at any point.
C5_LastLayerAlignedIffDivides ==
    (1 <= student_layers /\ student_layers <= teacher_layers) =>
        LET k == FloorRatio(teacher_layers, student_layers)
            top == (k * student_layers)..(teacher_layers - 1)
            used == TeacherLayersUsed(attention_losses)
                        \cup TeacherLayersUsed(hidden_losses)
        IN  /\ used \cap top = {}
            /\ Cardinality(top) = teacher_layers - k * student_layers
            /\ (Returned /\ is_training) =>
                /\ (attention_losses[student_layers].labels.layer
                        = teacher_layers - 1)
                    <=> (teacher_layers % student_layers = 0)
                /\ (hidden_losses[student_layers].labels.layer
                        = teacher_layers - 1)
                    <=> (teacher_layers % student_layers = 0)
                /\ attention_losses[student_layers].predictions.layer
                        = student_layers - 1
                /\ hidden_losses[student_layers].predictions.layer
                        = student_layers - 1

C5_Witness ==
    /\ Returned
    /\ is_training
    /\ student_layers = 2
    /\ teacher_layers = 3
    /\ TeacherLayersUsed(attention_losses) = {0, 1}
    /\ TeacherLayersUsed(hidden_losses) = {0, 1}

\* C6: the teacher is frozen. The teacher encoder is built with
\* is_training=False and trainable=False, the variables of the teacher
\* classifier are not trainable, and in every loss term the one teacher
\* operand has passed stop_gradient; on return in training mode all of these
\* exist.
FrozenTerm(term) ==
    /\ Cardinality(TeacherOperands(term)) = 1
    /\ \A t \in TeacherOperands(term) : t.sg

C6_TeacherFrozen ==
    /\ teacher # NoEncoder =>
            /\ teacher.is_training = FALSE
            /\ teacher.trainable = FALSE
    /\ \A k \in 1..Len(variables) :
            variables[k].scope = "cls/seq_relationship"
                => variables[k].trainable = FALSE
    /\ embedding_loss # NoLoss => FrozenTerm(embedding_loss)
    /\ \A j \in 1..Len(attention_losses) : FrozenTerm(attention_losses[j])
    /\ \A j \in 1..Len(hidden_losses) : FrozenTerm(hidden_losses[j])
    /\ pred_loss # NoLoss => FrozenTerm(pred_loss)
    /\ (Returned /\ is_training) =>
            /\ teacher # NoEncoder
            /\ Cardinality({k \in 1..Len(variables) :
                    variables[k].scope = "cls/seq_relationship"}) = 2
            /\ embedding_loss # NoLoss
            /\ pred_loss # NoLoss
            /\ Len(attention_losses) = student_layers
            /\ Len(hidden_losses) = student_layers

C6_Witness ==
    /\ Returned
    /\ is_training
    /\ trainable
    /\ teacher.trainable = FALSE
    /\ FrozenTerm(pred_loss)
    /\ FrozenTerm(embedding_loss)
    /\ Len(attention_losses) = 2
    /\ FrozenTerm(hidden_losses[2])

\* C7 as stated: with a per-sample weight vector w of batch size B the
\* returned prediction loss is (1/B) * sum over b of w[b] * CE[b], with
\* CE[b] = - sum over c of teacher_prob[b][c] * student_log_prob[b][c].
PerSampleCE(b) ==
    0 - SumSeq([c \in 1..label_size |->
            p_teacher_probs.data[<<b, c>>] * p_student_log_probs.data[<<b, c>>]])

C7_PerSampleWeighting ==
    (p_pc = "return" /\ Len(p_weights.shape) = 1) =>
        LET B == p_weights.shape[1]
            claimed == SumSeq([b \in 1..B |->
                            p_weights.data[<<b>>] * PerSampleCE(b)])
        IN  p_pred_loss.data[<<>>] * B = claimed * p_pred_loss.den

C7_Witness ==
    /\ p_pc = "return"
    /\ p_weights.shape = <<2>>
    /\ p_weights.data[<<1>>] = 0
    /\ p_weights.data[<<2>>] = 1
    /\ PerSampleCE(1) # PerSampleCE(2)

\* C8 as stated: with use_tilda_embedding among the keyword arguments the
\* construction raises no TypeError, the student encoder gets the caller's
\* value and the teacher encoder gets False.
C8_TildaKeywordAccepted ==
    HasTilda =>
        /\ pc # "TypeError"
        /\ Returned =>
            /\ student.use_tilda_embedding
                    = KwargsGet(kwargs, "use_tilda_embedding")
            /\ is_training => teacher.use_tilda_embedding = "False"

C8_Witness ==
    /\ HasTilda
    /\ pc = "TypeError"
    /\ encoder_calls = <<>>

\* C9: when Ns > Nt >= 1 every subscript evaluated on the teacher lists is
\* -1, every per-layer term reads the teacher's last layer (position Nt - 1),
\* in the attention loss and in the hidden loss, and no IndexError is raised.
LastLayerList(subscripts, list) ==
    /\ \A j \in 1..Len(subscripts) : subscripts[j] = -1
    /\ \A j \in 1..Len(list) :
            /\ list[j].labels.scope = TeacherScope
            /\ list[j].labels.layer = teacher_layers - 1
            /\ list[j].predictions.layer = j - 1

C9_DeeperStudentReadsLastTeacherLayer ==
    (student_layers > teacher_layers /\ teacher_layers >= 1) =>
        /\ pc # "IndexError"
        /\ LastLayerList(attention_subscripts, attention_losses)
        /\ LastLayerList(hidden_subscripts, hidden_losses)
        /\ (Returned /\ is_training) =>
                /\ Len(attention_losses) = student_layers
                /\ Len(hidden_losses) = student_layers
                /\ Len(attention_subscripts) = student_layers
                /\ Len(hidden_subscripts) = student_layers

C9_Witness ==
    /\ Returned
    /\ is_training
    /\ student_layers = 3
    /\ teacher_layers = 2
    /\ attention_subscripts = <<-1, -1, -1>>
    /\ hidden_subscripts = <<-1, -1, -1>>
    /\ TeacherLayersUsed(hidden_losses) = {1}

====
